---- MODULE Spec2Model ----
(***************************************************************************)
(* Model of the Ollama client wrapper (src/src/ollama_helper.py) and of    *)
(* the AI block of main (src/main.py).  Every HTTP exchange is an input:   *)
(* the server's answer (or the network failure) is chosen by the           *)
(* environment, the client code is translated statement by statement.      *)
(***************************************************************************)
EXTENDS Integers, Sequences, FiniteSets, TLC

VARIABLES
    held,       \* the set of model names the server holds
    legacyJson, \* FALSE: response.json() raises requests' JSONDecodeError, a
                \* RequestException (requests 2.27 and later); TRUE: it raises
                \* a plain ValueError (earlier versions)
    pc,         \* position of the caller
    fn,         \* the function the caller invoked
    model,      \* its `model` argument
    prompt,     \* its `prompt` argument
    kwargs,     \* the extra keyword arguments of ask
    models,     \* setup_ollama's local `models`
    reqs,       \* the requests issued by the call, in order
    resp,       \* the answer to the last of them
    avail,      \* setup_ollama: what ollama.is_available() returned
    response,   \* ask_ai's `response`, main's `suggestion`: what ask returned
    out,        \* the lines the call printed, in order
    ret         \* what the call returned (or raised)

vars == <<held, legacyJson, pc, fn, model, prompt, kwargs, models, reqs, resp, avail, response, out, ret>>

(***************************************************************************)
(* Bounds and input domains                                                *)
(***************************************************************************)
MaxModels == 3      \* longest `models` array of a listing body

Names == {"llama2", "mistral"}
Prompts == {"summarize this dataset", "hello"}
\* extra keyword arguments of ask: `model` and `prompt` are parameters of
\* their own, so of the default keys only `stream` can come in **kwargs
Kwargs ==
    {<<>>, [stream |-> TRUE], [stream |-> FALSE], [temperature |-> 0],
     [stream |-> TRUE, temperature |-> 0]}
Texts == {"", "try a histogram"}
Statuses == {200, 404, 500}
NetErrors == {"ConnectionError", "Timeout"}   \* refused / DNS failure, timeout

ProbeTimeout == 5
AskTimeout == 60
NoTimeout == 0 - 1   \* no timeout argument: the call may block for ever

(***************************************************************************)
(* Python values                                                           *)
(***************************************************************************)
PyNone == [t |-> "None", b |-> FALSE, l |-> <<>>, s |-> ""]
PyBool(b) == [t |-> "bool", b |-> b, l |-> <<>>, s |-> ""]
PyList(l) == [t |-> "list", b |-> FALSE, l |-> l, s |-> ""]
PyStr(s) == [t |-> "str", b |-> FALSE, l |-> <<>>, s |-> s]
Client == [t |-> "OllamaHelper", b |-> FALSE, l |-> <<>>, s |-> "http://ollama:11434"]
Raise(e) == [t |-> "raise", b |-> FALSE, l |-> <<>>, s |-> e]
Unset == [t |-> "unset", b |-> FALSE, l |-> <<>>, s |-> ""]

\* Python's truth value of an object
Truthy(v) ==
    CASE v.t = "None" -> FALSE
      [] v.t = "bool" -> v.b
      [] v.t = "list" -> v.l # <<>>
      [] v.t = "str" -> v.s # ""
      [] OTHER -> TRUE

Range(seq) == {seq[i] : i \in DOMAIN seq}

SeqsUpTo(S, n) == UNION {[1..k -> S] : k \in 0..n}

(***************************************************************************)
(* The server's answers                                                    *)
(***************************************************************************)
\* an element of a `models` array: an object with a name, an object without,
\* or something that is no object (a string, a number)
Entry(n) == [isObj |-> TRUE, hasName |-> TRUE, name |-> n]
NoNameEntry == [isObj |-> TRUE, hasName |-> FALSE, name |-> ""]
ScalarEntry == [isObj |-> FALSE, hasName |-> FALSE, name |-> ""]
Entries == {Entry(n) : n \in Names} \cup {NoNameEntry, ScalarEntry}

\* a response body: not JSON at all, a JSON value that is no object, or an
\* object; `models` is absent, a number or an array; `response` is absent,
\* null or a string
Body(json, mk, ms, rk, r) ==
    [json |-> json, modelsKind |-> mk, models |-> ms, responseKind |-> rk, response |-> r]
InvalidBody == Body("invalid", "absent", <<>>, "absent", "")
ArrayBody == Body("array", "absent", <<>>, "absent", "")
EmptyObject == Body("object", "absent", <<>>, "absent", "")
TagsBody(ms) == Body("object", "list", ms, "absent", "")
NumberModelsBody == Body("object", "number", <<>>, "absent", "")
NullResponseBody == Body("object", "absent", <<>>, "null", "")
GenerateBody(text) == Body("object", "absent", <<>>, "str", text)

WellFormed(ms) == \A i \in DOMAIN ms : ms[i].isObj /\ ms[i].hasName
ListedNames(ms) == {ms[i].name : i \in {j \in DOMAIN ms : ms[j].isObj /\ ms[j].hasName}}

\* a well-formed listing tells the truth about what the server holds
TagsBodies ==
    {InvalidBody, ArrayBody, EmptyObject, NumberModelsBody}
    \cup {TagsBody(ms) : ms \in {x \in SeqsUpTo(Entries, MaxModels) :
                                    WellFormed(x) => ListedNames(x) = held}}
GenerateBodies ==
    {InvalidBody, ArrayBody, EmptyObject, NullResponseBody}
    \cup {GenerateBody(t) : t \in Texts}

Http(status, body) == [kind |-> "http", status |-> status, body |-> body, exc |-> ""]
NetFail(e) == [kind |-> "net", status |-> 0, body |-> InvalidBody, exc |-> e]
NoAnswer == [kind |-> "none", status |-> 0, body |-> InvalidBody, exc |-> ""]

\* bodies of non-200 answers: an error page, or a body that would parse
Answers(bodies, errBodies) ==
    {NetFail(e) : e \in NetErrors}
    \cup {Http(200, b) : b \in bodies}
    \cup {Http(s, b) : s \in Statuses \ {200}, b \in errBodies}
TagsAnswers == Answers(TagsBodies, {InvalidBody, TagsBody(<<Entry("llama2")>>)})
PullAnswers == Answers({InvalidBody, EmptyObject}, {InvalidBody})
GenerateAnswers == Answers(GenerateBodies, {InvalidBody, GenerateBody("try a histogram")})

(***************************************************************************)
(* Requests                                                                *)
(***************************************************************************)
NoJson == [k \in {} |-> ""]
Request(method, path, json, timeout, stream) ==
    [method |-> method, path |-> path, json |-> json, timeout |-> timeout, stream |-> stream]

Line(text, arg) == [text |-> text, arg |-> arg]

(***************************************************************************)
(* Exceptions                                                              *)
(***************************************************************************)
\* the classes `except requests.exceptions.RequestException` catches
IsRequestException(e) == e \in {"ConnectionError", "Timeout", "JSONDecodeError"}

\* what response.json() raises on a body that is not JSON
JsonError == IF legacyJson THEN "ValueError" ELSE "JSONDecodeError"

Raised(v) == v.t = "raise"
StatusOk(r) == r.status = 200

(***************************************************************************)
(* OllamaHelper.is_available                                               *)
(***************************************************************************)
is_available_req == Request("GET", "/api/tags", NoJson, ProbeTimeout, FALSE)

is_available_try(r) ==
    IF r.kind = "net" THEN Raise(r.exc) ELSE PyBool(StatusOk(r))

is_available(r) ==
    LET v == is_available_try(r)
    IN  IF Raised(v) /\ IsRequestException(v.s) THEN PyBool(FALSE) ELSE v

(***************************************************************************)
(* OllamaHelper.list_models                                                *)
(***************************************************************************)
list_models_req == Request("GET", "/api/tags", NoJson, NoTimeout, FALSE)

\* [model['name'] for model in ms]: left to right, raising at the first
\* element that has no 'name' (KeyError) or cannot be indexed by a string
RECURSIVE NamesFrom(_, _)
NamesFrom(ms, acc) ==
    IF ms = <<>> THEN PyList(acc)
    ELSE IF ~Head(ms).isObj THEN Raise("TypeError")
    ELSE IF ~Head(ms).hasName THEN Raise("KeyError")
    ELSE NamesFrom(Tail(ms), Append(acc, Head(ms).name))

\* faulty variant: the names are deduplicated, first occurrences kept
RECURSIVE Dedup(_, _)
Dedup(l, acc) ==
    IF l = <<>> THEN acc
    ELSE Dedup(Tail(l), IF Head(l) \in Range(acc) THEN acc ELSE Append(acc, Head(l)))

NamesOfDedup(ms) ==
    LET v == NamesFrom(ms, <<>>)
    IN  IF Raised(v) THEN v ELSE PyList(Dedup(v.l, <<>>))

NamesOf(ms) == NamesFrom(ms, <<>>)

\* response.json().get('models', [])
list_models_parse(body) ==
    IF body.json = "invalid" THEN Raise(JsonError)
    ELSE IF body.json # "object" THEN Raise("AttributeError")
    ELSE IF body.modelsKind = "absent" THEN PyList(<<>>)
    ELSE IF body.modelsKind # "list" THEN Raise("TypeError")
    ELSE NamesOf(body.models)

list_models_try(r) ==
    IF r.kind = "net" THEN Raise(r.exc)
    ELSE IF StatusOk(r) THEN list_models_parse(r.body)
    ELSE PyList(<<>>)

list_models(r) ==
    LET v == list_models_try(r)
    IN  IF Raised(v) /\ IsRequestException(v.s) THEN PyList(<<>>) ELSE v

(***************************************************************************)
(* OllamaHelper.pull_model                                                 *)
(***************************************************************************)
pull_model_req(m) == Request("POST", "/api/pull", [name |-> m], NoTimeout, TRUE)

pull_model_try(r) ==
    IF r.kind = "net" THEN Raise(r.exc) ELSE PyBool(StatusOk(r))

pull_model(r) ==
    LET v == pull_model_try(r)
    IN  IF Raised(v) /\ IsRequestException(v.s) THEN PyBool(FALSE) ELSE v

(***************************************************************************)
(* OllamaHelper.ask                                                        *)
(***************************************************************************)
\* {**a, **b}: the keys of both, b's value where both have the key
DictMerge(a, b) ==
    [k \in DOMAIN a \cup DOMAIN b |-> IF k \in DOMAIN b THEN b[k] ELSE a[k]]

\* faulty variant: {**kwargs, "model": ..., "prompt": ..., "stream": False}
ask_data_defaults_win(p, m, kw) ==
    DictMerge(kw, [model |-> m, prompt |-> p, stream |-> FALSE])

ask_data(p, m, kw) ==
    DictMerge([model |-> m, prompt |-> p, stream |-> FALSE], kw)

ask_req(p, m, kw) == Request("POST", "/api/generate", ask_data(p, m, kw), AskTimeout, FALSE)

\* faulty variant: response.json().get('response'), no default
ask_parse_no_default(body) ==
    IF body.json = "invalid" THEN Raise(JsonError)
    ELSE IF body.json # "object" THEN Raise("AttributeError")
    ELSE IF body.responseKind \in {"absent", "null"} THEN PyNone
    ELSE PyStr(body.response)

\* response.json().get('response', '')
ask_parse(body) ==
    IF body.json = "invalid" THEN Raise(JsonError)
    ELSE IF body.json # "object" THEN Raise("AttributeError")
    ELSE IF body.responseKind = "absent" THEN PyStr("")
    ELSE IF body.responseKind = "null" THEN PyNone
    ELSE PyStr(body.response)

\* faulty variant: the status is not checked before the body is read
ask_try_any_status(r) ==
    IF r.kind = "net" THEN Raise(r.exc) ELSE ask_parse(r.body)

ask_try(r) ==
    IF r.kind = "net" THEN Raise(r.exc)
    ELSE IF StatusOk(r) THEN ask_parse(r.body)
    ELSE PyNone

\* the value returned (or the exception let through)
ask(r) ==
    LET v == ask_try(r)
    IN  IF Raised(v) /\ IsRequestException(v.s) THEN PyNone ELSE v

\* faulty variant: the non-200 branch prints too
ask_out_every_failure(r) ==
    LET v == ask_try(r)
    IN  IF Raised(v) /\ IsRequestException(v.s) THEN <<Line("Error asking Ollama", v.s)>>
        ELSE IF r.kind = "http" /\ r.status # 200
             THEN <<Line("Error asking Ollama", "status")>>
        ELSE <<>>

\* the lines printed: only the except clause prints
ask_out(r) ==
    LET v == ask_try(r)
    IN  IF Raised(v) /\ IsRequestException(v.s)
        THEN <<Line("Error asking Ollama", v.s)>>
        ELSE <<>>

(***************************************************************************)
(* Messages                                                                *)
(***************************************************************************)
NotAvailableMsg == Line("Ollama server not available. Please start Ollama first.", "")
PullingMsg(m) == Line("Pulling model...", m)
ReadyMsg(m) == Line("model ready!", m)
FailedPullMsg(m) == Line("Failed to pull model", m)
AlreadyMsg(m) == Line("model already available!", m)
Apology == "Sorry, I couldn't get a response from the AI."
MainPrompt == "Based on this dataset summary, what analysis should I start with?"
TestingMsg == Line("Testing AI integration...", "")
SuggestionsMsg == Line("AI Suggestions:", "")
ServiceDownMsg == Line("AI service not available", "")
NoHelperMsg == Line("Ollama helper not available (run in Docker for AI features)", "")
IntegrationErrorMsg(e) == Line("AI integration error", e)

(***************************************************************************)
(* The caller                                                              *)
(***************************************************************************)
Init ==
    /\ held \in SUBSET Names
    /\ legacyJson \in BOOLEAN
    /\ pc = "idle"
    /\ fn = ""
    /\ model = ""
    /\ prompt = ""
    /\ kwargs = <<>>
    /\ models = <<>>
    /\ reqs = <<>>
    /\ resp = NoAnswer
    /\ avail = Unset
    /\ response = Unset
    /\ out = <<>>
    /\ ret = Unset

\* the server gains or loses a model while nobody waits for a result
ServerInstall(n) ==
    /\ pc # "done"
    /\ n \notin held
    /\ held' = held \cup {n}
    /\ UNCHANGED <<legacyJson, pc, fn, model, prompt, kwargs, models, reqs, resp, avail, response, out, ret>>

ServerRemove(n) ==
    /\ pc # "done"
    /\ n \in held
    /\ held' = held \ {n}
    /\ UNCHANGED <<legacyJson, pc, fn, model, prompt, kwargs, models, reqs, resp, avail, response, out, ret>>

\* the caller has read the result; the next call starts from a clean record
Return ==
    /\ pc = "done"
    /\ pc' = "idle"
    /\ fn' = ""
    /\ model' = ""
    /\ prompt' = ""
    /\ kwargs' = <<>>
    /\ models' = <<>>
    /\ reqs' = <<>>
    /\ resp' = NoAnswer
    /\ avail' = Unset
    /\ response' = Unset
    /\ out' = <<>>
    /\ ret' = Unset
    /\ UNCHANGED <<held, legacyJson>>

IsAvailable(r) ==
    /\ pc = "idle"
    /\ fn' = "is_available"
    /\ reqs' = <<is_available_req>>
    /\ resp' = r
    /\ ret' = is_available(r)
    /\ pc' = "done"
    /\ UNCHANGED <<held, legacyJson, model, prompt, kwargs, models, avail, response, out>>

ListModels(r) ==
    /\ pc = "idle"
    /\ fn' = "list_models"
    /\ reqs' = <<list_models_req>>
    /\ resp' = r
    /\ ret' = list_models(r)
    /\ pc' = "done"
    /\ UNCHANGED <<held, legacyJson, model, prompt, kwargs, models, avail, response, out>>

PullModel(m, r) ==
    /\ pc = "idle"
    /\ fn' = "pull_model"
    /\ model' = m
    /\ reqs' = <<pull_model_req(m)>>
    /\ resp' = r
    /\ ret' = pull_model(r)
    /\ pc' = "done"
    /\ UNCHANGED <<held, legacyJson, prompt, kwargs, models, avail, response, out>>

Ask(p, m, kw, r) ==
    /\ pc = "idle"
    /\ fn' = "ask"
    /\ prompt' = p
    /\ model' = m
    /\ kwargs' = kw
    /\ reqs' = <<ask_req(p, m, kw)>>
    /\ resp' = r
    /\ out' = ask_out(r)
    /\ ret' = ask(r)
    /\ pc' = "done"
    /\ UNCHANGED <<held, legacyJson, models, avail, response>>

\* faulty variant: `response if response is not None else ...`
ask_ai_result_none_only(v) ==
    IF Raised(v) THEN v ELSE IF v = PyNone THEN PyStr(Apology) ELSE v

\* ask_ai(prompt, model): response if response else the apology
ask_ai_result(v) ==
    IF Raised(v) THEN v ELSE IF Truthy(v) THEN v ELSE PyStr(Apology)

AskAi(p, m, r) ==
    /\ pc = "idle"
    /\ fn' = "ask_ai"
    /\ prompt' = p
    /\ model' = m
    /\ reqs' = <<ask_req(p, m, <<>>)>>
    /\ resp' = r
    /\ out' = ask_out(r)
    /\ response' = ask(r)
    /\ ret' = ask_ai_result(ask(r))
    /\ pc' = "done"
    /\ UNCHANGED <<held, legacyJson, kwargs, models, avail>>

(***************************************************************************)
(* setup_ollama, one step per exchange                                     *)
(***************************************************************************)
\* faulty variant: the test of the probe is inverted
ServerDownInverted(a) == Truthy(a)

\* `if not ollama.is_available()`
ServerDown(a) == ~Truthy(a)

\* faulty variant: only the first listed name is compared
NeedsPullFirstOnly(m, ms) == ms = <<>> \/ ms[1] # m

\* `if model not in models`
NeedsPull(m, ms) == m \notin Range(ms)

\* setup_ollama ends with v (the client, or an exception on its way up) after
\* printing `lines`; in main the client goes to `ai` and every exception to
\* main's `except Exception`
SetupEnd(v, lines) ==
    IF fn = "main"
    THEN IF Raised(v)
         THEN /\ out' = out \o lines \o <<IntegrationErrorMsg(v.s)>>
              /\ ret' = PyNone
              /\ pc' = "done"
         ELSE /\ out' = out \o lines
              /\ ret' = ret
              /\ pc' = "main_ask"
    ELSE /\ out' = out \o lines
         /\ ret' = v
         /\ pc' = "done"

CallSetup(m) ==
    /\ pc = "idle"
    /\ fn' = "setup_ollama"
    /\ model' = m
    /\ pc' = "setup_probe"
    /\ UNCHANGED <<held, legacyJson, prompt, kwargs, models, reqs, resp, avail, response, out, ret>>

SetupProbe(r) ==
    /\ pc = "setup_probe"
    /\ reqs' = Append(reqs, is_available_req)
    /\ resp' = r
    /\ avail' = is_available(r)
    /\ LET a == is_available(r)
       IN  IF Raised(a) THEN SetupEnd(a, <<>>)
           ELSE IF ServerDown(a) THEN SetupEnd(Client, <<NotAvailableMsg>>)
           ELSE /\ pc' = "setup_list"
                /\ UNCHANGED <<out, ret>>
    /\ UNCHANGED <<held, legacyJson, fn, model, prompt, kwargs, models, response>>

SetupList(r) ==
    /\ pc = "setup_list"
    /\ reqs' = Append(reqs, list_models_req)
    /\ resp' = r
    /\ LET l == list_models(r)
       IN  IF Raised(l)
           THEN /\ models' = models
                /\ SetupEnd(l, <<>>)
           ELSE /\ models' = l.l
                /\ IF NeedsPull(model, l.l)
                   THEN /\ out' = Append(out, PullingMsg(model))
                        /\ pc' = "setup_pull"
                        /\ ret' = ret
                   ELSE SetupEnd(Client, <<AlreadyMsg(model)>>)
    /\ UNCHANGED <<held, legacyJson, fn, model, prompt, kwargs, avail, response>>

SetupPull(r) ==
    /\ pc = "setup_pull"
    /\ reqs' = Append(reqs, pull_model_req(model))
    /\ resp' = r
    /\ LET ok == pull_model(r)
       IN  IF Raised(ok) THEN SetupEnd(ok, <<>>)
           ELSE IF Truthy(ok) THEN SetupEnd(Client, <<ReadyMsg(model)>>)
           ELSE SetupEnd(Client, <<FailedPullMsg(model)>>)
    /\ UNCHANGED <<held, legacyJson, fn, model, prompt, kwargs, models, avail, response>>

(***************************************************************************)
(* main: the AI block                                                      *)
(***************************************************************************)
\* `from ollama_helper import setup_ollama`, then setup_ollama("llama2")
CallMain(importOk) ==
    /\ pc = "idle"
    /\ fn' = "main"
    /\ IF importOk
       THEN /\ out' = <<TestingMsg>>
            /\ model' = "llama2"
            /\ prompt' = MainPrompt
            /\ ret' = ret
            /\ pc' = "setup_probe"
       ELSE /\ out' = <<NoHelperMsg>>
            /\ ret' = PyNone
            /\ pc' = "done"
            /\ UNCHANGED <<model, prompt>>
    /\ UNCHANGED <<held, legacyJson, kwargs, models, reqs, resp, avail, response>>

\* suggestion = ai.ask(...); `if suggestion:` prints it, else the service is
\* reported as not available
main_report(v) ==
    IF Raised(v) THEN <<IntegrationErrorMsg(v.s)>>
    ELSE IF Truthy(v) THEN <<SuggestionsMsg, Line(v.s, "")>>
    ELSE <<ServiceDownMsg>>

MainAsk(r) ==
    /\ pc = "main_ask"
    /\ reqs' = Append(reqs, ask_req(prompt, "llama2", <<>>))
    /\ resp' = r
    /\ response' = ask(r)
    /\ out' = out \o ask_out(r) \o main_report(ask(r))
    /\ ret' = PyNone
    /\ pc' = "done"
    /\ UNCHANGED <<held, legacyJson, fn, model, prompt, kwargs, models, avail>>

Next ==
    \/ \E n \in Names : ServerInstall(n)
    \/ \E n \in Names : ServerRemove(n)
    \/ Return
    \/ \E r \in TagsAnswers : IsAvailable(r)
    \/ \E r \in TagsAnswers : ListModels(r)
    \/ \E m \in Names, r \in PullAnswers : PullModel(m, r)
    \/ \E p \in Prompts, m \in Names, kw \in Kwargs, r \in GenerateAnswers : Ask(p, m, kw, r)
    \/ \E p \in Prompts, m \in Names, r \in GenerateAnswers : AskAi(p, m, r)
    \/ \E m \in Names : CallSetup(m)
    \/ \E r \in TagsAnswers : SetupProbe(r)
    \/ \E r \in TagsAnswers : SetupList(r)
    \/ \E r \in PullAnswers : SetupPull(r)
    \/ \E ok \in BOOLEAN : CallMain(ok)
    \/ \E r \in GenerateAnswers : MainAsk(r)

Spec == Init /\ [][Next]_vars

\* the runs with requests 2.27 or later installed
InitCurrent == Init /\ ~legacyJson

SpecCurrent == InitCurrent /\ [][Next]_vars

(***************************************************************************)
(* Properties                                                              *)
(***************************************************************************)
Primitives == {"is_available", "list_models", "pull_model", "ask"}

Returned(f) == pc = "done" /\ fn = f

\* the two failure kinds: Unreachable and Unsuccessful
Unreachable(r) == r.kind = "net"
Unsuccessful(r) == r.kind = "http" /\ r.status # 200
ExchangeFailed(r) == Unreachable(r) \/ Unsuccessful(r)
Answered200(r) == r.kind = "http" /\ r.status = 200

Degraded(f) ==
    CASE f = "is_available" -> PyBool(FALSE)
      [] f = "list_models" -> PyList(<<>>)
      [] f = "pull_model" -> PyBool(FALSE)
      [] f = "ask" -> PyNone

IsPull(q) == q.method = "POST" /\ q.path = "/api/pull"
PullIssued == \E i \in DOMAIN reqs : IsPull(reqs[i])

\* C1: after a failed exchange (a status other than 200, or a network
\* failure) each primitive has returned its degraded value and raised
\* nothing: False, the empty list, False, None.
C1_DegradedOnFailure ==
    (pc = "done" /\ fn \in Primitives /\ ExchangeFailed(resp)) => ret = Degraded(fn)

C1_Witness ==
    /\ Returned("ask")
    /\ resp = Http(500, GenerateBody("try a histogram"))
    /\ ret = PyNone

\* C2: no primitive ever raises to its caller, whatever the exchange gave,
\* a 200 answer with a body of an unexpected shape included.
C2_NeverRaises ==
    (pc = "done" /\ fn \in Primitives) => ~Raised(ret)

\* C3: once the probe of setup_ollama has reported the server unavailable,
\* the probe is the only request issued (no listing, no pull), the
\* not-available diagnostic is the only line printed, and the client is
\* returned.
C3_UnavailableStopsSetup ==
    (fn = "setup_ollama" /\ avail = PyBool(FALSE)) =>
        /\ pc = "done"
        /\ reqs = <<is_available_req>>
        /\ ~PullIssued
        /\ out = <<NotAvailableMsg>>
        /\ ret = Client

C3_Witness ==
    /\ Returned("setup_ollama")
    /\ avail = PyBool(FALSE)
    /\ Unreachable(resp)
    /\ model \in held

\* C4: when the server is available and the listing holds the target name,
\* setup_ollama issues no pull and reports the model as already available;
\* a pull is issued only when the name is absent from the list list_models
\* returned.
C4_PullOnlyWhenAbsent ==
    fn = "setup_ollama" =>
        /\ (Len(reqs) = 2 /\ Answered200(resp) /\ resp.body.json = "object"
                /\ resp.body.modelsKind = "list" /\ WellFormed(resp.body.models)
                /\ \E i \in DOMAIN resp.body.models : resp.body.models[i].name = model)
            => /\ pc = "done"
               /\ ~PullIssued
               /\ out = <<AlreadyMsg(model)>>
               /\ ret = Client
        /\ (PullIssued \/ pc = "setup_pull") =>
               /\ avail = PyBool(TRUE)
               /\ \A i \in DOMAIN models : models[i] # model

C4_Witness ==
    /\ Returned("setup_ollama")
    /\ model = "llama2"
    /\ models = <<"mistral", "llama2">>
    /\ out = <<AlreadyMsg("llama2")>>
    /\ Len(reqs) = 2

\* C5: the body of ask's request is the defaults {model, prompt, stream:
\* false} overridden by the caller's extra parameters: every caller key
\* carries the caller's value (stream=True gives stream = true), and a call
\* without a caller-supplied stream has stream = false.
C5_CallerWins ==
    \A i \in DOMAIN reqs :
        reqs[i].path = "/api/generate" =>
            LET d == reqs[i].json
                kw == IF fn = "ask" THEN kwargs ELSE <<>>
            IN  /\ DOMAIN d = {"model", "prompt", "stream"} \cup DOMAIN kw
                /\ \A k \in DOMAIN kw : d[k] = kw[k]
                /\ d.prompt = prompt
                /\ d.model = model
                /\ ("stream" \notin DOMAIN kw) => d.stream = FALSE

C5_Witness ==
    /\ Returned("ask")
    /\ kwargs = [stream |-> TRUE, temperature |-> 0]
    /\ reqs[1].json = [model |-> "mistral", prompt |-> "hello", stream |-> TRUE, temperature |-> 0]

\* C6: on a 200 listing list_models returns the name of every element of
\* the `models` array, in the array's order, as many as the array has,
\* duplicates kept; without a `models` key it returns the empty list.
C6_ListingOrder ==
    (Returned("list_models") /\ Answered200(resp) /\ resp.body.json = "object") =>
        /\ resp.body.modelsKind = "absent" => ret = PyList(<<>>)
        /\ (resp.body.modelsKind = "list" /\ WellFormed(resp.body.models)) =>
               /\ ret.t = "list"
               /\ Len(ret.l) = Len(resp.body.models)
               /\ \A i \in DOMAIN ret.l : ret.l[i] = resp.body.models[i].name

C6_Witness ==
    /\ Returned("list_models")
    /\ resp = Http(200, TagsBody(<<Entry("llama2"), Entry("mistral"), Entry("llama2")>>))
    /\ ret = PyList(<<"llama2", "mistral", "llama2">>)

\* the value of a JSON object's `response` field, '' when it has none
ResponseField(body) ==
    IF body.responseKind = "str" THEN PyStr(body.response)
    ELSE IF body.responseKind = "null" THEN PyNone
    ELSE PyStr("")

\* C7 (as claimed): on a 200 answer ask returns the value of the body's
\* `response` field, the empty string when the field is absent, and it
\* returns None only when the exchange failed (status other than 200, or
\* network failure).
C7_NoneOnlyOnFailedExchange ==
    Returned("ask") =>
        /\ (Answered200(resp) /\ resp.body.json = "object") => ret = ResponseField(resp.body)
        /\ ret = PyNone => ExchangeFailed(resp)

\* C7 (amended): on a 200 answer whose body is a JSON object ask returns the
\* value of the `response` field (None for a JSON null), the empty string
\* when the field is absent; it returns None only when the exchange failed,
\* when the 200 body is not JSON and the decoding error is a
\* RequestException, or when the `response` field is null.
C7_ReturnsResponseField ==
    Returned("ask") =>
        /\ (Answered200(resp) /\ resp.body.json = "object") => ret = ResponseField(resp.body)
        /\ ret = PyNone =>
               \/ ExchangeFailed(resp)
               \/ Answered200(resp) /\ resp.body.json = "invalid" /\ ~legacyJson
               \/ Answered200(resp) /\ resp.body.json = "object" /\ resp.body.responseKind = "null"

C7_Witness ==
    /\ Returned("ask")
    /\ resp = Http(200, EmptyObject)
    /\ ret = PyStr("")

\* C8 (as claimed): whenever ask fails, Unreachable or Unsuccessful, it has
\* printed a diagnostic before returning None; the other three primitives
\* print nothing.
C8_EveryFailureReported ==
    (pc = "done" /\ fn \in Primitives) =>
        /\ (fn = "ask" /\ ExchangeFailed(resp)) => (ret = PyNone /\ out # <<>>)
        /\ fn # "ask" => out = <<>>

\* C8 (amended): ask prints a diagnostic exactly when its except clause
\* catches a RequestException: on a network failure and, where the JSON
\* decoding error is a RequestException, on a 200 body that is not JSON; it
\* then returns None.  For a status other than 200 it returns None and
\* prints nothing.  The other three primitives print nothing.
C8_OnlyExceptionsReported ==
    (pc = "done" /\ fn \in Primitives) =>
        /\ fn = "ask" =>
               /\ out # <<>> <=>
                      \/ Unreachable(resp)
                      \/ Answered200(resp) /\ resp.body.json = "invalid" /\ ~legacyJson
               /\ out # <<>> => (ret = PyNone /\ Len(out) = 1 /\ out[1].text = "Error asking Ollama")
               /\ Unsuccessful(resp) => (ret = PyNone /\ out = <<>>)
        /\ fn # "ask" => out = <<>>

C8_Witness ==
    /\ Returned("ask")
    /\ resp = NetFail("Timeout")
    /\ ret = PyNone
    /\ out = <<Line("Error asking Ollama", "Timeout")>>

\* the requests of setup_ollama come in the order probe, listing, pull, each
\* at most once
C9_Order ==
    fn = "setup_ollama" =>
        \E k \in 0..3 : reqs = SubSeq(<<is_available_req, list_models_req, pull_model_req(model)>>, 1, k)

\* a listing that failed after a successful probe gave the empty list, and
\* the pull follows whether or not the server holds the model
C9_PullAfterFailedListing ==
    (fn = "setup_ollama" /\ Len(reqs) = 2 /\ ExchangeFailed(resp)) =>
        /\ models = <<>>
        /\ pc = "setup_pull"

C9_PullAlthoughHeld ==
    /\ Returned("setup_ollama")
    /\ PullIssued
    /\ model \in held
    /\ models = <<>>

C9_ReturnsClient ==
    Returned("setup_ollama") => ret = Client

\* C9: every run of setup_ollama issues probe, listing and at most one pull
\* in that order, each at most once; a listing that fails after a successful
\* probe leads to a pull; and setup_ollama returns a client on every path.
C9_SetupRuns ==
    /\ C9_Order
    /\ C9_PullAfterFailedListing
    /\ C9_ReturnsClient

\* C10: ask_ai never returns None or the empty string: it returns what ask
\* returned when that is a non-empty string and the apology otherwise, so a
\* 200 completion with an empty or absent `response` is reported like a
\* failed exchange; main prints that the AI service is not available for an
\* empty suggestion as for a failed exchange.
C10_AskAiNeverEmpty ==
    /\ Returned("ask_ai") =>
           /\ ret # PyNone /\ ret # PyStr("")
           /\ (response.t = "str" /\ response.s # "") => ret = response
           /\ (response = PyNone \/ response = PyStr("")) => ret = PyStr(Apology)
           /\ (ExchangeFailed(resp)
                   \/ (Answered200(resp) /\ resp.body.json = "object"
                          /\ ResponseField(resp.body) = PyStr("")))
               => ret = PyStr(Apology)
           /\ (Answered200(resp) /\ resp.body.json = "object" /\ resp.body.responseKind = "str"
                   /\ resp.body.response # "")
               => ret = PyStr(resp.body.response)
    /\ (Returned("main") /\ reqs # <<>> /\ reqs[Len(reqs)].path = "/api/generate"
            /\ (ExchangeFailed(resp)
                   \/ (Answered200(resp) /\ resp.body.json = "object"
                          /\ ResponseField(resp.body) = PyStr(""))))
        => out[Len(out)] = ServiceDownMsg

C10_Witness ==
    /\ Returned("ask_ai")
    /\ resp = Http(200, GenerateBody(""))
    /\ response = PyStr("")
    /\ ret = PyStr(Apology)

====
